---- MODULE Spec2Model ----
(***************************************************************************)
(* Model of app_streamlit.py: a Streamlit page that loads a YOLO model    *)
(* once per process (st.cache_resource), and per browser session offers a *)
(* confidence slider, a file uploader and a detect button.  Streamlit     *)
(* re-executes the whole script on every user interaction; every user     *)
(* action below therefore includes the script run it triggers.  The only  *)
(* run that is split in two is the detect run: DetectClick executes the   *)
(* script up to the model.predict call (the spinner is on screen),        *)
(* ProviderReturn executes the rest.  A session accepts no other input    *)
(* while its predict call is in flight.                                    *)
(*                                                                         *)
(* Confidence values are in hundredths (0.25 is 25).  The image decoder   *)
(* (PIL.Image.open) and the detector (ultralytics YOLO.predict) are       *)
(* external: a file either decodes to an image or raises, and predict     *)
(* either raises or returns the candidate boxes of the image whose score  *)
(* is at least conf.                                                       *)
(***************************************************************************)
EXTENDS Integers, Sequences, FiniteSets, TLC

\* ---- bounds of the model ----
NumSessions == 1
NumImages == 2
MaxClicks == 2
SliderStride == 95

\* ---- program constants ----
DEFAULT_CONFIDENCE == 25
MinConf == 5
MaxConf == 100
SliderStep == 1

Sessions == 1..NumSessions
Images == 1..NumImages

\* uploaded_file values: no file, a file that decodes to image i, a malformed file
NoFile == 0
BadFile == -1
Files == Images \cup {BadFile}

\* st.session_state['uploaded_image']: key absent, None, or image i
Absent == -1
None == 0

\* the slider positions the model explores: a sub-grid of min..max by step
SliderValues ==
    {v \in MinConf..MaxConf :
        /\ (v - MinConf) % SliderStep = 0
        /\ \/ (v - MinConf) % SliderStride = 0
           \/ v = DEFAULT_CONFIDENCE
           \/ v = MaxConf}

VARIABLES
    assetState,      \* the model file on disk: "missing", "corrupt", "valid"
    modelCache,      \* st.cache_resource entry of load_yolo_model(MODEL_PATH)
    slider,          \* per session: confidence_slider
    uploaded_file,   \* per session: the file_uploader's value
    uploaded_image,  \* per session: st.session_state['uploaded_image']
    display,         \* per session: what the last script run left on the page
    clicks,          \* detect clicks so far, all sessions
    predictCalls,    \* model.predict invocations so far, all sessions
    lastGood,        \* per session: the most recent upload that decoded (0: none)
    replaced,        \* per session: lastGood took the place of a different image
    detected         \* per session: a detect run of the session has completed

vars == <<assetState, modelCache, slider, uploaded_file, uploaded_image,
          display, clicks, predictCalls, lastGood, replaced, detected>>

\* ---- page contents ----
\* kind: the main area of the page; decodeError: the image-load error box;
\* img, conf: the image and threshold of the detect request; count: the number
\* in the success box; cause, returned: what the provider did (fault stage,
\* number of boxes it returned)
Page(kind, decodeError, img, conf, count, cause, returned) ==
    [kind |-> kind, decodeError |-> decodeError, img |-> img, conf |-> conf,
     count |-> count, cause |-> cause, returned |-> returned]

Plain(kind) == Page(kind, FALSE, 0, 0, 0, "none", 0)

\* ---- load_yolo_model ----
load_yolo_model(asset) ==
    IF asset = "missing" THEN "missing"
    ELSE IF asset = "valid" THEN "loaded"
    ELSE "loadfail"

CachedLoadNoCache(cache, asset) == load_yolo_model(asset)

\* @st.cache_resource: the first call's return value is kept for the process
CachedLoad(cache, asset) ==
    IF cache = "unset" THEN load_yolo_model(asset) ELSE cache

ModelFailed(cache) == cache \in {"missing", "loadfail"}

\* ---- PIL.Image.open ----
Decode(f) ==
    IF f \in Images THEN [ok |-> TRUE, image |-> f]
    ELSE [ok |-> FALSE, image |-> None]

OnDecodeFailureKeep(prev) == prev

\* the except branch of the upload block: the stored image is set to None
OnDecodeFailure(prev) == None

HasStoredImageNotAbsent(img) == img # Absent

\* 'uploaded_image' in st.session_state and it is not None
HasStoredImage(img) == img # Absent /\ img # None

\* ---- the detector ----
\* candidate boxes of image i, by score
Candidates(i) == [k \in 1..(i + 1) |-> ((i * 31 + k * 47) % 100) + 1]

AtLeast(conf, sc) == sc >= conf

Predict(img, conf) ==
    LET keep(sc) == AtLeast(conf, sc)
    IN  SelectSeq(Candidates(img), keep)

\* results = model.predict(source=..., conf=...): one Results object per image
Results(req) == <<[boxes |-> Predict(req.img, req.conf)]>>

PredictConfInverted(sl) == MinConf + MaxConf - sl

PredictConfDefault(sl) == DEFAULT_CONFIDENCE

\* conf=confidence_slider
PredictConf(sl) == sl

\* source=st.session_state['uploaded_image']
PredictSource(stored) == stored

OnDecodeSuccessKeepFirst(prev, image) == IF HasStoredImage(prev) THEN prev ELSE image

\* the try branch of the upload block: the decoded image replaces the stored one
OnDecodeSuccess(prev, image) == image

\* ---- the script, from the upload block to the spinner ----
Outcomes == {"Result", "Empty", "InferenceFailed"}

PageWithoutClickKeepsOutcome(shown, stored, failed) ==
    IF shown.kind \in Outcomes THEN shown
    ELSE Page("ImageShown", failed, stored, 0, 0, "none", 0)

\* detect_button is False: the image and the button, no result card, whatever
\* the page showed before this run
PageWithoutClick(shown, stored, failed) ==
    Page("ImageShown", failed, stored, 0, 0, "none", 0)

StoredAfterUpload(f, prev) ==
    IF f = NoFile THEN prev
    ELSE IF Decode(f).ok THEN OnDecodeSuccess(prev, Decode(f).image)
    ELSE OnDecodeFailure(prev)

UploadBlock(f, prev, sl, detect_button, shown) ==
    LET stored == StoredAfterUpload(f, prev)
        failed == f # NoFile /\ ~Decode(f).ok
    IN  [image |-> stored,
         page  |->
            IF f = NoFile THEN Plain("NoImage")
            ELSE IF HasStoredImage(stored)
            THEN IF detect_button
                 THEN Page("Detecting", failed, PredictSource(stored),
                           PredictConf(sl), 0, "none", 0)
                 ELSE PageWithoutClick(shown, stored, failed)
            ELSE Page("InvalidImage", failed, 0, 0, 0, "none", 0)]

\* if model_load_error_message: error and warning; if model: the rest
Script(cache, f, prev, sl, detect_button, shown) ==
    IF cache = "loaded"
    THEN UploadBlock(f, prev, sl, detect_button, shown)
    ELSE [image |-> prev, page |-> Plain("ModelLoadFailed")]

\* ---- the script, from model.predict to the end of the result card ----
\* results and len(results) > 0 and boxes is not None and len(boxes) > 0
HasBoxes(results) == Len(results) > 0 /\ Len(results[1].boxes) > 0

NumDetections(results) == Len(results[1].boxes)

\* an exception reaches the except clause: predict raised, or plot raised
\* (plot is only called when there are boxes)
Raised(fault, results) ==
    \/ fault = "predict"
    \/ fault = "plot" /\ HasBoxes(results)

AfterFaultRetry(req, fault, returned) ==
    [page |-> Page("Detecting", FALSE, req.img, req.conf, 0, "none", 0),
     invoke |-> TRUE]

\* except Exception as e: st.error(...); nothing is invoked again
AfterFault(req, fault, returned) ==
    [page |-> Page("InferenceFailed", FALSE, req.img, req.conf, 0, fault, returned),
     invoke |-> FALSE]

AfterReturnEmptyIsError(req, results) ==
    IF HasBoxes(results)
    THEN Page("Result", FALSE, req.img, req.conf, NumDetections(results),
              "none", NumDetections(results))
    ELSE Page("InferenceFailed", FALSE, req.img, req.conf, 0, "none", 0)

\* the if/else on the returned boxes: success box with the count, or the info box
AfterReturn(req, results) ==
    IF HasBoxes(results)
    THEN Page("Result", FALSE, req.img, req.conf, NumDetections(results),
              "none", NumDetections(results))
    ELSE Page("Empty", FALSE, req.img, req.conf, 0, "none", 0)

\* ---- state ----
ClosedPage == Plain("Closed")

Init ==
    /\ assetState \in {"missing", "corrupt", "valid"}
    /\ modelCache = "unset"
    /\ slider = [s \in Sessions |-> DEFAULT_CONFIDENCE]
    /\ uploaded_file = [s \in Sessions |-> NoFile]
    /\ uploaded_image = [s \in Sessions |-> Absent]
    /\ display = [s \in Sessions |-> ClosedPage]
    /\ clicks = 0
    /\ predictCalls = 0
    /\ lastGood = [s \in Sessions |-> 0]
    /\ replaced = [s \in Sessions |-> FALSE]
    /\ detected = [s \in Sessions |-> FALSE]

WidgetsShown(s) == display[s].kind \notin {"Closed", "ModelLoadFailed", "Detecting"}

ButtonShown(s) == display[s].kind \in {"ImageShown", "Result", "Empty", "InferenceFailed"}

\* one execution of the script for session s with the given widget values
Run(s, sl, f, prev, detect_button) ==
    LET cache == CachedLoad(modelCache, assetState)
        r == Script(cache, f, prev, sl, detect_button, display[s])
    IN  /\ modelCache' = cache
        /\ slider' = [slider EXCEPT ![s] = sl]
        /\ uploaded_file' = [uploaded_file EXCEPT ![s] = f]
        /\ uploaded_image' = [uploaded_image EXCEPT ![s] = r.image]
        /\ display' = [display EXCEPT ![s] = r.page]
        /\ predictCalls' = IF r.page.kind = "Detecting"
                           THEN predictCalls + 1 ELSE predictCalls

\* the model file appears, disappears or is replaced on disk
AssetChange(a) ==
    /\ a # assetState
    /\ assetState' = a
    /\ UNCHANGED <<modelCache, slider, uploaded_file, uploaded_image, display,
                   clicks, predictCalls, lastGood, replaced, detected>>

\* a browser connects: a fresh session, first script run
OpenPage(s) ==
    /\ display[s].kind = "Closed"
    /\ LET cache == CachedLoad(modelCache, assetState)
           r == Script(cache, NoFile, Absent, DEFAULT_CONFIDENCE, FALSE, ClosedPage)
       IN  /\ modelCache' = cache
           /\ slider' = [slider EXCEPT ![s] = DEFAULT_CONFIDENCE]
           /\ uploaded_file' = [uploaded_file EXCEPT ![s] = NoFile]
           /\ uploaded_image' = [uploaded_image EXCEPT ![s] = r.image]
           /\ display' = [display EXCEPT ![s] = r.page]
    /\ lastGood' = [lastGood EXCEPT ![s] = 0]
    /\ replaced' = [replaced EXCEPT ![s] = FALSE]
    /\ detected' = [detected EXCEPT ![s] = FALSE]
    /\ UNCHANGED <<assetState, clicks, predictCalls>>

\* the session ends: its widget state and session_state are discarded
CloseSession(s) ==
    /\ display[s].kind \notin {"Closed", "Detecting"}
    /\ slider' = [slider EXCEPT ![s] = DEFAULT_CONFIDENCE]
    /\ uploaded_file' = [uploaded_file EXCEPT ![s] = NoFile]
    /\ uploaded_image' = [uploaded_image EXCEPT ![s] = Absent]
    /\ display' = [display EXCEPT ![s] = ClosedPage]
    /\ lastGood' = [lastGood EXCEPT ![s] = 0]
    /\ replaced' = [replaced EXCEPT ![s] = FALSE]
    /\ detected' = [detected EXCEPT ![s] = FALSE]
    /\ UNCHANGED <<assetState, modelCache, clicks, predictCalls>>

\* the user reruns the script without touching a widget
Rerun(s) ==
    /\ display[s].kind \notin {"Closed", "Detecting"}
    /\ Run(s, slider[s], uploaded_file[s], uploaded_image[s], FALSE)
    /\ UNCHANGED <<assetState, clicks, lastGood, replaced, detected>>

\* the user moves the confidence slider
SetThreshold(s, v) ==
    /\ WidgetsShown(s)
    /\ v # slider[s]
    /\ Run(s, v, uploaded_file[s], uploaded_image[s], FALSE)
    /\ UNCHANGED <<assetState, clicks, lastGood, replaced, detected>>

\* the user puts a file into the uploader
Upload(s, f) ==
    /\ WidgetsShown(s)
    /\ f # uploaded_file[s]
    /\ Run(s, slider[s], f, uploaded_image[s], FALSE)
    /\ lastGood' = [lastGood EXCEPT ![s] = IF Decode(f).ok THEN f ELSE @]
    /\ replaced' = [replaced EXCEPT ![s] =
            IF Decode(f).ok THEN lastGood[s] \notin {0, f} ELSE @]
    /\ UNCHANGED <<assetState, clicks, detected>>

\* the user removes the file from the uploader
RemoveFile(s) ==
    /\ WidgetsShown(s)
    /\ uploaded_file[s] # NoFile
    /\ Run(s, slider[s], NoFile, uploaded_image[s], FALSE)
    /\ UNCHANGED <<assetState, clicks, lastGood, replaced, detected>>

\* the user clicks the detect button: the script runs up to model.predict
DetectClick(s) ==
    /\ ButtonShown(s)
    /\ clicks < MaxClicks
    /\ Run(s, slider[s], uploaded_file[s], uploaded_image[s], TRUE)
    /\ clicks' = clicks + 1
    /\ UNCHANGED <<assetState, lastGood, replaced, detected>>

\* model.predict returns or raises: the rest of the script
ProviderReturn(s, fault) ==
    /\ display[s].kind = "Detecting"
    /\ LET req == display[s]
           results == Results(req)
           h == AfterFault(req, fault, IF fault = "predict" THEN 0 ELSE NumDetections(results))
       IN  IF Raised(fault, results)
           THEN /\ display' = [display EXCEPT ![s] = h.page]
                /\ predictCalls' = IF h.invoke THEN predictCalls + 1
                                   ELSE predictCalls
           ELSE /\ display' = [display EXCEPT ![s] = AfterReturn(req, results)]
                /\ UNCHANGED predictCalls
    /\ UNCHANGED <<assetState, modelCache, slider, uploaded_file, uploaded_image,
                   clicks, lastGood, replaced>>
    /\ detected' = [detected EXCEPT ![s] = display'[s].kind \in Outcomes]

Next ==
    \/ \E a \in {"missing", "corrupt", "valid"} : AssetChange(a)
    \/ \E s \in Sessions : OpenPage(s)
    \/ \E s \in Sessions : CloseSession(s)
    \/ \E s \in Sessions : Rerun(s)
    \/ \E s \in Sessions, v \in SliderValues : SetThreshold(s, v)
    \/ \E s \in Sessions, f \in Files : Upload(s, f)
    \/ \E s \in Sessions : RemoveFile(s)
    \/ \E s \in Sessions : DetectClick(s)
    \/ \E s \in Sessions, fault \in {"none", "predict", "plot"} : ProviderReturn(s, fault)

Spec == Init /\ [][Next]_vars

\* ---- properties ----
Open(s) == display[s].kind # "Closed"

\* this step puts a file that does not decode into the uploader of session s
FailedUpload(s) ==
    /\ uploaded_file'[s] # uploaded_file[s]
    /\ uploaded_file'[s] # NoFile
    /\ ~Decode(uploaded_file'[s]).ok

\* the image a session_state value holds (0: none, key absent or None)
ImageOf(v) == IF v \in Images THEN v ELSE 0

\* the detect run of a session with file f, stored image prev and slider sl,
\* when the provider does not fault
DetectOutcome(f, prev, sl) ==
    LET req == UploadBlock(f, prev, sl, TRUE, ClosedPage).page
    IN  AfterReturn(req, Results(req))

\* the candidate boxes of image i that score at least conf
NumAtLeast(i, conf) ==
    Cardinality({k \in DOMAIN Candidates(i) : Candidates(i)[k] >= conf})

\* C1 as stated: an upload that fails to decode shows the InvalidImage error
\* and the stored image after it equals the stored image before it.
C1_FailedUploadKeepsImage ==
    [][\A s \in Sessions :
        FailedUpload(s) =>
            /\ display'[s].decodeError
            /\ ImageOf(uploaded_image'[s]) = ImageOf(uploaded_image[s])]_vars

\* C1 amended: an upload that fails to decode shows the InvalidImage error and
\* leaves the session with no stored image (None), whatever was stored before.
C1_FailedUploadClearsImage ==
    [][\A s \in Sessions :
        FailedUpload(s) =>
            /\ display'[s].kind = "InvalidImage"
            /\ display'[s].decodeError
            /\ uploaded_image'[s] = None]_vars

C1_Witness ==
    \E s \in Sessions :
        /\ uploaded_file[s] = BadFile
        /\ lastGood[s] \in Images
        /\ uploaded_image[s] = None
        /\ display[s].decodeError

C3_LoadFailureDisablesDetection ==
    [][ModelFailed(modelCache) =>
        /\ modelCache' = modelCache
        /\ predictCalls' = 0
        /\ \A s \in Sessions :
              /\ display[s].kind \in {"Closed", "ModelLoadFailed"}
              /\ display'[s].kind \in {"Closed", "ModelLoadFailed"}]_vars

C3_Witness ==
    /\ modelCache = "missing"
    /\ assetState = "valid"
    /\ \E s \in Sessions : display[s].kind = "ModelLoadFailed"

\* C4: a completed detection shows exactly one of: the count (>= 1) when the
\* provider returned at least one box and nothing raised, the empty-result
\* info when it returned no box, the inference error when something raised.
C4_ThreeOutcomes ==
    \A s \in Sessions :
        LET d == display[s]
        IN  d.kind \in Outcomes =>
            /\ d.kind = "Result" <=> (d.cause = "none" /\ d.returned >= 1)
            /\ d.kind = "Empty" <=> (d.cause = "none" /\ d.returned = 0)
            /\ d.kind = "InferenceFailed" <=> d.cause # "none"
            /\ d.kind = "Result" => (d.count >= 1 /\ d.count = d.returned)
            /\ d.kind # "Result" => d.count = 0

C4_Witness ==
    \E s \in Sessions :
        /\ display[s].kind = "Empty"
        /\ slider[s] = MaxConf
        /\ uploaded_image[s] \in Images

\* C5: the count a detection reports is the number of candidate boxes of the
\* session's stored image whose score is at least the session's slider value.
C5_CountMatchesThreshold ==
    \A s \in Sessions :
        display[s].kind \in {"Result", "Empty"} =>
            /\ uploaded_image[s] \in Images
            /\ display[s].count = NumAtLeast(uploaded_image[s], slider[s])

C5_Witness ==
    \E s \in Sessions :
        /\ display[s].kind = "Result"
        /\ slider[s] # DEFAULT_CONFIDENCE
        /\ display[s].count < Len(Candidates(uploaded_image[s]))

\* C6: for the image of a reported count at threshold t1, a detect run at any
\* threshold t2 > t1 reports a count that is not larger, and at any t2 < t1
\* one that is not smaller (an empty result counts 0); two sessions showing
\* counts for the same image are ordered the same way.
C6_CountMonotone ==
    /\ \A s \in Sessions :
        display[s].kind \in {"Result", "Empty"} =>
            \A t \in MinConf..MaxConf :
                LET o == DetectOutcome(uploaded_file[s], uploaded_image[s], t)
                IN  /\ t > slider[s] => o.count <= display[s].count
                    /\ t < slider[s] => o.count >= display[s].count
    /\ \A s1, s2 \in Sessions :
        (/\ display[s1].kind \in {"Result", "Empty"}
         /\ display[s2].kind \in {"Result", "Empty"}
         /\ uploaded_image[s1] = uploaded_image[s2]
         /\ slider[s1] < slider[s2]) => display[s2].count <= display[s1].count

C6_Witness ==
    \E s \in Sessions :
        /\ display[s].kind = "Result"
        /\ slider[s] > MinConf
        /\ \E t \in MinConf..MaxConf :
              /\ t > slider[s]
              /\ DetectOutcome(uploaded_file[s], uploaded_image[s], t).count
                     < display[s].count
        /\ \E t \in MinConf..MaxConf :
              /\ t < slider[s]
              /\ DetectOutcome(uploaded_file[s], uploaded_image[s], t).count
                     > display[s].count

C8_IdleOnlyAtSessionEnd ==
    [][\A s \in Sessions :
        LET d == display[s]
            e == display'[s]
        IN  /\ (e.kind = "Detecting" /\ d.kind # "Detecting") =>
                  uploaded_image[s] \in Images
            /\ (e.kind \in Outcomes /\ e # d) => d.kind = "Detecting"
            /\ (/\ d.kind \in Outcomes
                /\ uploaded_file'[s] # uploaded_file[s]
                /\ uploaded_file'[s] # NoFile) => e.kind = "ImageShown"
            /\ (uploaded_image[s] \in Images /\ uploaded_image'[s] \notin Images) =>
                  e.kind = "Closed"]_vars

\* C8 amended: Detecting is entered only from a page with an image and the
\* detect button; Result, Empty and Error are entered only from Detecting; an
\* upload that decodes leads from Result or Error to ImageLoaded; a session
\* with an image on the page gets back to a page without one by session end,
\* by an upload that fails to decode (InvalidImage, the stored image is
\* dropped) or by removing the file (upload prompt), never during Detecting.
C8_StateMachine ==
    [][\A s \in Sessions :
        LET d == display[s]
            e == display'[s]
        IN  /\ (e.kind = "Detecting" /\ d.kind # "Detecting") =>
                  (/\ d.kind \in (Outcomes \cup {"ImageShown"})
                   /\ uploaded_image[s] \in Images)
            /\ (e.kind \in Outcomes /\ e # d) => d.kind = "Detecting"
            /\ (/\ d.kind \in Outcomes
                /\ uploaded_file'[s] # uploaded_file[s]
                /\ Decode(uploaded_file'[s]).ok) => e.kind = "ImageShown"
            /\ (/\ d.kind \in (Outcomes \cup {"ImageShown", "Detecting"})
                /\ e.kind \notin (Outcomes \cup {"ImageShown", "Detecting"})) =>
                  /\ d.kind # "Detecting"
                  /\ \/ e.kind = "Closed"
                     \/ e.kind = "InvalidImage" /\ FailedUpload(s)
                                                /\ uploaded_image'[s] = None
                     \/ /\ e.kind = "NoImage"
                        /\ uploaded_file'[s] = NoFile
                        /\ uploaded_file[s] # NoFile]_vars

C8_Witness ==
    \E s \in Sessions :
        /\ display[s].kind = "InvalidImage"
        /\ uploaded_image[s] = None
        /\ detected[s]

\* C9: model.predict is invoked only by a detect click, once per click; when
\* it returns or raises, the page shows the outcome and nothing is in flight.
C9_NoRetry ==
    [][/\ predictCalls' # predictCalls =>
              (predictCalls' = predictCalls + 1 /\ clicks' = clicks + 1)
       /\ predictCalls <= clicks
       /\ predictCalls' <= clicks'
       /\ \A s \in Sessions :
              (display[s].kind = "Detecting" /\ display'[s] # display[s]) =>
                  display'[s].kind \in Outcomes]_vars

C9_Witness ==
    \E s \in Sessions :
        /\ display[s].kind = "InferenceFailed"
        /\ display[s].cause = "predict"
        /\ clicks >= 1
        /\ predictCalls = clicks

\* C10: an outcome on the page was produced by the detect run from the
\* session's current image and slider value, and any step of the session
\* other than the provider's return leaves no outcome on the page.
C10_OutcomeNeverStale ==
    [][\A s \in Sessions :
        display'[s].kind \in Outcomes =>
            /\ display'[s].img = uploaded_image'[s]
            /\ display'[s].img = uploaded_file'[s]
            /\ display'[s].conf = slider'[s]
            /\ slider'[s] = slider[s]
            /\ uploaded_file'[s] = uploaded_file[s]
            /\ \/ display[s].kind = "Detecting"
               \/ display'[s] = display[s]]_vars

C10_Witness ==
    \E s \in Sessions :
        /\ display[s].kind = "ImageShown"
        /\ detected[s]
        /\ ~replaced[s]
        /\ slider[s] # DEFAULT_CONFIDENCE

====
